---- MODULE Spec2Model ----
(***************************************************************************)
(* The FHA quote endpoint of main.py: the amount parser, the property-type *)
(* normalisation and the fha_quote handler.                                *)
(*                                                                         *)
(* Text is a sequence of one-character strings, so that strip, lower,      *)
(* replace, endswith, substring tests and the amount pattern are computed  *)
(* character by character as Python computes them.  The one non-ASCII      *)
(* character of the source, the en dash, is the character "EN_DASH".       *)
(*                                                                         *)
(* A Decimal is a record [c, t, e] standing for (c + t/TicksPerCent) *     *)
(* 10^e cents: c whole cents (floor), t the sub-cent part in ticks, and e  *)
(* a power of ten that is 0 for every amount below ten million dollars.    *)
(***************************************************************************)
EXTENDS Integers, Sequences, FiniteSets, TLC

VARIABLES pc, payload, response, x, ret

vars == <<pc, payload, response, x, ret>>

----------------------------------------------------------------------------
(* Bounds of the model *)

\* Longest text of the exhaustive parse_number inputs.
MaxLen == 3

----------------------------------------------------------------------------
(* Python values and text *)

None == [t |-> "NoneType", s |-> <<>>]

Str(s) == [t |-> "str", s |-> s]

\* A non-text value, given by its type and its str() form.
Obj(type, s) == [t |-> type, s |-> s]

UpperChars == <<"A", "B", "C", "D", "E", "F", "G", "H", "I", "J", "K", "L", "M", "N", "O", "P", "Q", "R", "S", "T", "U", "V", "W", "X", "Y", "Z">>

LowerChars == <<"a", "b", "c", "d", "e", "f", "g", "h", "i", "j", "k", "l", "m", "n", "o", "p", "q", "r", "s", "t", "u", "v", "w", "x", "y", "z">>

DigitChars == <<"0", "1", "2", "3", "4", "5", "6", "7", "8", "9">>

IsDigit(ch) == \E i \in 1..10 : DigitChars[i] = ch

DigitVal(ch) == (CHOOSE i \in 1..10 : DigitChars[i] = ch) - 1

IsSpace(ch) == ch \in {" ", "\t", "\n"}

LowerCh(ch) ==
  IF \E i \in 1..26 : UpperChars[i] = ch
  THEN LowerChars[CHOOSE i \in 1..26 : UpperChars[i] = ch]
  ELSE ch

\* str.lower()
Lower(s) == [i \in 1..Len(s) |-> LowerCh(s[i])]

RECURSIVE LStrip(_)
LStrip(s) == IF s # <<>> /\ IsSpace(Head(s)) THEN LStrip(Tail(s)) ELSE s

RECURSIVE RStrip(_)
RStrip(s) ==
  IF s # <<>> /\ IsSpace(s[Len(s)]) THEN RStrip(SubSeq(s, 1, Len(s) - 1)) ELSE s

\* str.strip()
Strip(s) == RStrip(LStrip(s))

\* str.replace(ch, "")
Remove(s, ch) == SelectSeq(s, LAMBDA c : c # ch)

\* str.endswith(ch) for a one-character suffix
EndsWith(s, ch) == s # <<>> /\ s[Len(s)] = ch

\* s[:-1]
DropLast(s) == SubSeq(s, 1, Len(s) - 1)

\* sub in s
Contains(s, sub) ==
  \E i \in 1..(Len(s) - Len(sub) + 1) : SubSeq(s, i, i + Len(sub) - 1) = sub

\* x or "" / x or "0": None and the empty text are falsy.
OrText(v, dflt) == IF v.t = "NoneType" \/ v.s = <<>> THEN dflt ELSE v.s

----------------------------------------------------------------------------
(* Decimal arithmetic *)

\* Sub-cent unit.  58400 is the denominator of 15 days of interest at
\* 6.125% (147/58400 of the loan) and 10^4 divides 25 * 58400, so every
\* figure of a quote on cent-exact inputs is a whole number of ticks.
TicksPerCent == 25 * 58400

\* decimal's default context precision (getcontext().prec).
Prec == 28

Dec(c, t, e) == [c |-> c, t |-> t, e |-> e]

DecZero == Dec(0, 0, 0)

\* Decimal("n") for a whole number of dollars.
Dollars(n) == Dec(n * 100, 0, 0)

RECURSIVE NumDigits(_)
NumDigits(n) == IF n < 10 THEN 1 ELSE 1 + NumDigits(n \div 10)

Abs(n) == IF n < 0 THEN -n ELSE n

RECURSIVE GCD(_, _)
GCD(a, b) == IF b = 0 THEN a ELSE GCD(b, a % b)

Min(a, b) == IF a < b THEN a ELSE b

IsZero(a) == a.c = 0 /\ a.t = 0

\* a < b, for amounts in plain cents.
DecLess(a, b) ==
  CASE a.e = 0 /\ b.e = 0 -> a.c < b.c \/ (a.c = b.c /\ a.t < b.t)

\* a + b, exact.
DecAdd(a, b) ==
  CASE a.e = 0 /\ b.e = 0 ->
    Dec(a.c + b.c + ((a.t + b.t) \div TicksPerCent), (a.t + b.t) % TicksPerCent, 0)

\* -a
DecNeg(a) ==
  IF a.t = 0 THEN Dec(-a.c, 0, a.e) ELSE Dec(-a.c - 1, TicksPerCent - a.t, a.e)

\* a - b, exact.
DecSub(a, b) == DecAdd(a, DecNeg(b))

\* a * k for a small whole number k.
DecScale(a, k) ==
  CASE a.e = 0 ->
    Dec(a.c * k + ((a.t * k) \div TicksPerCent), (a.t * k) % TicksPerCent, 0)

\* a * n / d for a cent-exact a and whole numbers n, d > 0, exact: the
\* quotient's sub-cent part is a whole number of ticks because the reduced
\* denominator divides TicksPerCent.
DecMulRatio(a, n, d) ==
  LET g  == GCD(Abs(n), d)
      nn == n \div g
      dd == d \div g
      q  == a.c \div dd
      r  == a.c % dd
  IN CASE a.e = 0 /\ a.t = 0 /\ TicksPerCent % dd = 0 ->
       Dec(q * nn + ((r * nn) \div dd), ((r * nn) % dd) * (TicksPerCent \div dd), 0)

\* a * (p / Decimal("100")) for a cent-exact a and a percentage p.  A
\* percentage beyond the plain range (p.e >= 4) keeps its power of ten.
DecMulPercent(a, p) ==
  CASE p.e = 0 /\ p.t = 0 -> DecMulRatio(a, p.c, 100 * 100)
    [] p.e >= 4 /\ a.e = 0 /\ a.t = 0 -> Dec(a.c * p.c, 0, p.e - 4)

\* x rounded half-up (ties away from zero) to whole cents, in cents.
RoundedCents(a) ==
  IF a.c >= 0
  THEN (IF 2 * a.t >= TicksPerCent THEN a.c + 1 ELSE a.c)
  ELSE (IF 2 * a.t > TicksPerCent THEN a.c + 1 ELSE a.c)

\* The digits of the coefficient quantize would produce.
QuantizedDigits(a) ==
  IF a.e = 0 THEN NumDigits(Abs(RoundedCents(a))) ELSE NumDigits(Abs(a.c)) + a.e

\* quantize raises decimal.InvalidOperation when the result needs more
\* than Prec digits.
Q2Raises(a) == QuantizedDigits(a) > Prec

q2(a) == IF a.e = 0 THEN Dec(RoundedCents(a), 0, 0) ELSE a

\* The amount fmt_currency prints, in cents.
fmt_currency(a) == q2(a).c

----------------------------------------------------------------------------
(* parse_number *)

Ret(v) == [ok |-> TRUE, v |-> v, exc |-> "none"]

Raise(e) == [ok |-> FALSE, v |-> DecZero, exc |-> e]

RECURSIVE IntVal(_)
IntVal(ds) ==
  IF ds = <<>> THEN 0 ELSE IntVal(DropLast(ds)) * 10 + DigitVal(ds[Len(ds)])

RECURSIVE LStripZeros(_)
LStripZeros(ds) ==
  IF ds # <<>> /\ Head(ds) = "0" THEN LStripZeros(Tail(ds)) ELSE ds

RECURSIVE RStripZeros(_)
RStripZeros(ds) ==
  IF ds # <<>> /\ ds[Len(ds)] = "0" THEN RStripZeros(DropLast(ds)) ELSE ds

Zeros(n) == [i \in 1..n |-> "0"]

\* The digit at place i of ds, 0 beyond its end.
DigitAt(ds, i) == IF i <= Len(ds) THEN DigitVal(ds[i]) ELSE 0

\* Decimal(s) * mult for s matching _num_pat and mult = 10^k: the decimal
\* point moves k places to the right.  Amounts of at most seven integer
\* digits are held in plain cents and ticks (six decimal places); longer
\* whole amounts keep their trailing zeros as a power of ten.
DecimalTimes(s, k) ==
  LET neg   == Head(s) = "-"
      body  == IF neg THEN Tail(s) ELSE s
      dot   == IF \E i \in 1..Len(body) : body[i] = "."
               THEN CHOOSE i \in 1..Len(body) : body[i] = "."
               ELSE Len(body) + 1
      ip    == SubSeq(body, 1, dot - 1)
      fp    == SubSeq(body, dot + 1, Len(body))
      moved == Min(k, Len(fp))
      ip2   == LStripZeros(ip \o SubSeq(fp, 1, moved) \o Zeros(k - moved))
      fp2   == RStripZeros(SubSeq(fp, moved + 1, Len(fp)))
      plain == Dec(IntVal(ip2) * 100 + DigitAt(fp2, 1) * 10 + DigitAt(fp2, 2),
                   (DigitAt(fp2, 3) * 1000 + DigitAt(fp2, 4) * 100
                      + DigitAt(fp2, 5) * 10 + DigitAt(fp2, 6))
                     * (TicksPerCent \div 10000),
                   0)
      lead  == RStripZeros(ip2)
      long  == Dec(IntVal(lead), 0, Len(ip2) - Len(lead) + 2)
      mag   == CASE Len(ip2) <= 7 /\ Len(fp2) <= 6 -> plain
                 [] Len(ip2) > 7 /\ fp2 = <<>> -> long
  IN IF neg THEN DecNeg(mag) ELSE mag

\* One step of _num_pat = -?\d+(\.\d+)? over a character.
NumPatStep(q, ch) ==
  CASE q = "start" /\ ch = "-" -> "sign"
    [] q \in {"start", "sign", "int"} /\ IsDigit(ch) -> "int"
    [] q = "int" /\ ch = "." -> "dot"
    [] q \in {"dot", "frac"} /\ IsDigit(ch) -> "frac"
    [] OTHER -> "fail"

RECURSIVE NumPatRun(_, _)
NumPatRun(s, q) ==
  IF s = <<>> THEN q ELSE NumPatRun(Tail(s), NumPatStep(q, Head(s)))

\* _num_pat.fullmatch(s)
num_pat_fullmatch(s) == NumPatRun(s, "start") \in {"int", "frac"}

\* The texts parse_number answers with zero.
ZeroTokens == {<<"n", "o">>, <<"n", "o", "n", "e">>, <<"n", "o", " ", "h", "o", "a">>, <<>>}

\* parse_number with the invalid-value raise left out.
parse_number_lenient(v) ==
  IF v.t = "NoneType" THEN Ret(DecZero)
  ELSE IF v.t \in {"int", "float", "Decimal"} THEN Ret(DecimalTimes(v.s, 0))
  ELSE
    LET s0 == Lower(Strip(v.s)) IN
    IF s0 \in ZeroTokens THEN Ret(DecZero)
    ELSE
      LET s1 == Remove(Remove(Remove(s0, "$"), ","), " ")
          k  == IF EndsWith(s1, "k") THEN 3 ELSE IF EndsWith(s1, "m") THEN 6 ELSE 0
          s  == IF k > 0 THEN DropLast(s1) ELSE s1
      IN IF ~num_pat_fullmatch(IF s = <<>> THEN <<"0">> ELSE s) \/ s = <<>>
         THEN Ret(DecZero)
         ELSE Ret(DecimalTimes(s, k))

parse_number(v) ==
  IF v.t = "NoneType" THEN Ret(DecZero)
  ELSE IF v.t \in {"int", "float", "Decimal"} THEN Ret(DecimalTimes(v.s, 0))
  ELSE
    LET s0 == Lower(Strip(v.s)) IN
    IF s0 \in ZeroTokens THEN Ret(DecZero)
    ELSE
      LET s1 == Remove(Remove(Remove(s0, "$"), ","), " ")
          k  == IF EndsWith(s1, "k") THEN 3 ELSE IF EndsWith(s1, "m") THEN 6 ELSE 0
          s  == IF k > 0 THEN DropLast(s1) ELSE s1
      IN IF ~num_pat_fullmatch(IF s = <<>> THEN <<"0">> ELSE s)
         THEN Raise("ValueError")
         ELSE IF s = <<>> THEN Raise("InvalidOperation")
         ELSE Ret(DecimalTimes(s, k))

parse_percent_or_number(v) ==
  IF v.t = "NoneType" THEN Ret(DecZero)
  ELSE
    LET s0 == Lower(Strip(v.s))
        s  == IF EndsWith(s0, "%") THEN DropLast(s0) ELSE s0
    IN parse_number(Str(s))

----------------------------------------------------------------------------
(* The parser on its own: every short text over ParseAlphabet, and the     *)
(* documented examples.                                                    *)

ParseAlphabet == {"0", "1", "5", ".", ",", "$", "k", "M", "-", " ", "n", "o"}

ShortTexts == UNION {[1..n -> ParseAlphabet] : n \in 0..MaxLen}

SampleTexts ==
  { <<"n", "o", "n", "e">>, <<"N", "o", "n", "e">>, <<"n", "o", " ", "h", "o", "a">>, <<"n", "/", "a">>, <<"n", "a">>, <<"n", "i", "l">>, <<"n", "u", "l", "l">>,
    <<"$", "3", "5", "0", "k">>, <<"3", "5", "0", "k">>, <<"1", ".", "2", "m">>, <<"3", "5", "0", ",", "0", "0", "0">>, <<"1", "0", "0">>, <<" ", "3", " ", "5", " ", "0", " ", "K", " ">>,
    <<"a", "b", "c">>, <<"1", "2", ".", "3", "4", "5", "6", "7", "8">>, <<"3", ".", "5", "%">> }

ParseInputs ==
  {None, Obj("int", <<"0">>), Obj("int", <<"-", "7">>), Obj("list", <<"[", "]">>), Obj("dict", <<"{", "}">>)}
    \cup {Str(s) : s \in ShortTexts \cup SampleTexts}

InitParse ==
  /\ pc = "idle"
  /\ payload = None
  /\ response = None
  /\ x = None
  /\ ret = Ret(DecZero)

ParseCall(v) ==
  /\ pc = "idle"
  /\ pc' = "parsing"
  /\ x' = v
  /\ UNCHANGED <<payload, response, ret>>

ParseReturn ==
  /\ pc = "parsing"
  /\ pc' = "parsed"
  /\ ret' = parse_number(x)
  /\ UNCHANGED <<payload, response, x>>

ParseDone ==
  /\ pc = "parsed"
  /\ pc' = "idle"
  /\ x' = None
  /\ ret' = Ret(DecZero)
  /\ UNCHANGED <<payload, response>>

NextParse ==
  \/ pc = "idle" /\ \E v \in ParseInputs : ParseCall(v)
  \/ ParseReturn
  \/ ParseDone

SpecParse == InitParse /\ [][NextParse]_vars

----------------------------------------------------------------------------
(* parse_bool_soft and the property-type normalisation *)

\* parse_bool_soft: "True", "False" or "None" (unknown).
parse_bool_soft(v) ==
  IF v.t = "NoneType" THEN "None"
  ELSE
    LET s == Lower(Strip(v.s)) IN
    IF s \in {<<"t", "r", "u", "e">>, <<"t">>, <<"y", "e", "s">>, <<"y">>, <<"1">>} THEN "True"
    ELSE IF s \in {<<"f", "a", "l", "s", "e">>, <<"f">>, <<"n", "o">>, <<"n">>, <<"0">>} THEN "False"
    ELSE "None"

SingleFamilyKeys ==
  { <<"s", "f", "r">>, <<"s", "f", "h">>, <<"s", "i", "n", "g", "l", "e", " ", "f", "a", "m", "i", "l", "y">>, <<"s", "i", "n", "g", "l", "e", "-", "f", "a", "m", "i", "l", "y">>,
    <<"s", "i", "n", "g", "l", "e", " ", "f", "a", "m", "i", "l", "y", " ", "h", "o", "m", "e">>, <<"s", "i", "n", "g", "l", "e", "-", "f", "a", "m", "i", "l", "y", " ", "h", "o", "m", "e">>, <<"1", " ", "u", "n", "i", "t">>, <<"1", "-", "u", "n", "i", "t">> }

UnitKeys ==
  { <<"2", " ", "u", "n", "i", "t">>, <<"2", "-", "u", "n", "i", "t">>, <<"d", "u", "p", "l", "e", "x">>, <<"3", " ", "u", "n", "i", "t">>, <<"3", "-", "u", "n", "i", "t">>, <<"t", "r", "i", "p", "l", "e", "x">>,
    <<"4", " ", "u", "n", "i", "t">>, <<"4", "-", "u", "n", "i", "t">>, <<"q", "u", "a", "d", "p", "l", "e", "x">>, <<"f", "o", "u", "r", "p", "l", "e", "x">>, <<"1", "EN_DASH", "4", " ", "u", "n", "i", "t">>, <<"1", "-", "4", " ", "u", "n", "i", "t">> }

TownhomeKeys == { <<"t", "o", "w", "n", "h", "o", "m", "e">>, <<"t", "o", "w", "n", "h", "o", "u", "s", "e">>, <<"t", "o", "w", "n", " ", "h", "o", "u", "s", "e">>, <<"t", "h">>, <<"t", "w", "n", "h", "m">> }

PROPERTY_MAP ==
  [k \in SingleFamilyKeys \cup UnitKeys \cup TownhomeKeys |->
     IF k \in SingleFamilyKeys THEN "single-family"
     ELSE IF k \in UnitKeys THEN "1-4 unit"
     ELSE "townhome"]

ALLOWED_PROP_TYPES == {"single-family", "townhome", "1-4 unit"}

UnitTokens ==
  { <<"1", "-", "4">>, <<"1", "EN_DASH", "4">>, <<"d", "u", "p", "l", "e", "x">>, <<"t", "r", "i", "p", "l", "e", "x">>, <<"q", "u", "a", "d", "p", "l", "e", "x">>, <<"f", "o", "u", "r", "p", "l", "e", "x">>,
    <<"2", " ", "u", "n", "i", "t">>, <<"3", " ", "u", "n", "i", "t">>, <<"4", " ", "u", "n", "i", "t">> }

\* The normalised type, or "None".
normalize_property_type(raw) ==
  IF raw.t = "NoneType" \/ raw.s = <<>> THEN "None"
  ELSE
    LET s == Lower(Strip(raw.s)) IN
    IF s \in DOMAIN PROPERTY_MAP THEN PROPERTY_MAP[s]
    ELSE IF Contains(s, <<"s", "i", "n", "g", "l", "e">>) /\ Contains(s, <<"f", "a", "m", "i", "l", "y">>) THEN "single-family"
    ELSE IF Contains(s, <<"t", "o", "w", "n">>) THEN "townhome"
    ELSE IF \E tok \in UnitTokens : Contains(s, tok) THEN "1-4 unit"
    ELSE "None"

----------------------------------------------------------------------------
(* Policy constants of fha_quote *)

\* Minimum credit score.
MIN_FICO == 640

\* Minimum base loan, in dollars.
MIN_BASE_LOAN == 150000

\* Decimal("0.0175"), in ten-thousandths.
UFMIP_RATE == 175

\* Decimal("0.0055"), in ten-thousandths.
TITLE_RATE == 55

\* choose_rate: Decimal("6.125") percent, in thousandths of a percent.
NOTE_RATE == 6125

INTERIM_DAYS == 15

DAYS_PER_YEAR == 365

INSURANCE_MONTHS == 12

ESCROW_MONTHS == 3

----------------------------------------------------------------------------
(* fha_quote *)

NoInt == [t |-> "NoneType", n |-> 0]

PyInt(n) == [t |-> "int", n |-> n]

NoFigures == [none |-> TRUE]

Response(kind, missing, exc, echo, q) ==
  [kind |-> kind, missing |-> missing, exc |-> exc, echo |-> echo, q |-> q]

\* The try block: the first parse that raises ends it with its exception.
TryBlock(p) ==
  LET price  == parse_number(p.purchase_price)
      dp_val == parse_percent_or_number(p.down_payment_value)
      soft   == parse_bool_soft(p.down_payment_is_percent)
      raw_dp == Lower(Strip(OrText(p.down_payment_value, <<>>)))
      taxes  == parse_number(p.monthly_taxes)
      ins    == parse_number(p.monthly_insurance)
      hoa    == parse_number(Str(OrText(p.hoa, <<"0">>)))
      lcp    == parse_percent_or_number(Str(OrText(p.lender_credit_percent, <<"0">>)))
      calls  == <<price, dp_val, taxes, ins, hoa, lcp>>
      raised == \E i \in 1..6 : ~calls[i].ok
  IN [ raised    |-> raised,
       exc       |-> IF raised
                     THEN calls[CHOOSE i \in 1..6 :
                                  ~calls[i].ok /\ \A j \in 1..(i - 1) : calls[j].ok].exc
                     ELSE "none",
       fico_val  |-> p.fico,
       price     |-> price.v,
       dp_val    |-> dp_val.v,
       dp_is_pct |-> IF soft = "None" THEN Contains(raw_dp, <<"%">>) ELSE soft = "True",
       taxes     |-> taxes.v,
       ins       |-> ins.v,
       hoa_amt   |-> hoa.v,
       lcp       |-> lcp.v,
       ptype     |-> normalize_property_type(p.property_type) ]

When(cond, name) == IF cond THEN <<name>> ELSE <<>>

\* The required checks: the names of the missing fields, in order.
RequiredChecks(p, t) ==
  When(t.fico_val.t = "NoneType", "credit score")
    \o When(IsZero(t.price), "purchase price")
    \o When(Strip(OrText(p.down_payment_value, <<>>)) = <<>>, "down payment")
    \o When(IsZero(t.taxes) /\ OrText(p.monthly_taxes, <<>>) = <<>>, "monthly taxes")
    \o When(IsZero(t.ins) /\ OrText(p.monthly_insurance, <<>>) = <<>>, "monthly insurance")
    \o When(t.ptype = "None", "property type")

\* The amount the down payment is the q2 of.
DownPaymentRaw(t) ==
  IF t.dp_is_pct THEN DecMulPercent(t.price, t.dp_val) ELSE t.dp_val

\* total_after_credit: total closing costs less the credit, not below zero.
AfterCredit(total_closing_costs, lender_credit_amt) ==
  LET d == DecSub(total_closing_costs, lender_credit_amt)
  IN IF DecLess(d, DecZero) THEN DecZero ELSE d

\* cash_to_close with neither the clamp of the net closing costs nor the
\* floor at the down payment.
CashToCloseNoFloor(down_payment, total_closing_costs, lender_credit_amt) ==
  DecAdd(down_payment, DecSub(total_closing_costs, lender_credit_amt))

\* cash_to_close: down payment plus net closing costs, not below the down
\* payment.
CashToClose(down_payment, total_closing_costs, lender_credit_amt) ==
  LET sum == DecAdd(down_payment, AfterCredit(total_closing_costs, lender_credit_amt))
  IN IF DecLess(sum, down_payment) THEN down_payment ELSE sum

\* ufmip with the fraction of a cent cut off instead of rounded.
UfmipTruncated(base_loan) ==
  Dec(DecMulRatio(base_loan, UFMIP_RATE, 10000).c, 0, 0)

\* ufmip = q2(base_loan * Decimal("0.0175"))
Ufmip(base_loan) == q2(DecMulRatio(base_loan, UFMIP_RATE, 10000))

\* The line items of the boxes.  Interim interest is
\* final_loan * (rate / 100) / 365 * 15: the division by 365 is inexact in
\* Decimal by less than 10^-20 of a cent, and the exact quotient rounds the
\* same way, because a figure that lies exactly on a half cent has 73
\* dividing the loan, and then the division is exact.
LineItems(t, ufmip, final_loan) ==
  [ a_origination  |-> Dollars(0),
    b_appraisal    |-> Dollars(650),
    b_credit       |-> Dollars(100),
    b_flood        |-> Dollars(30),
    ufmip          |-> ufmip,
    c_title        |-> Dollars(500),
    c_lender_title |-> DecMulRatio(final_loan, TITLE_RATE, 10000),
    c_survey       |-> Dollars(300),
    e_recording    |-> Dollars(299),
    e_transfer     |-> DecMulRatio(final_loan, TITLE_RATE, 10000),
    f_insurance    |-> DecScale(t.ins, INSURANCE_MONTHS),
    f_interim      |-> DecMulRatio(final_loan, NOTE_RATE * INTERIM_DAYS,
                                   1000 * 100 * DAYS_PER_YEAR),
    g_taxes        |-> DecScale(t.taxes, ESCROW_MONTHS),
    g_insurance    |-> DecScale(t.ins, ESCROW_MONTHS) ]

\* The box subtotals, summed over the unrounded line items.
Boxes(i) ==
  [ box_a |-> Dollars(0),
    box_b |-> DecAdd(DecAdd(DecAdd(i.b_appraisal, i.b_credit), i.b_flood), i.ufmip),
    box_c |-> DecAdd(DecAdd(i.c_title, i.c_lender_title), i.c_survey),
    box_e |-> DecAdd(i.e_recording, i.e_transfer),
    box_f |-> DecAdd(i.f_insurance, i.f_interim),
    box_g |-> DecAdd(i.g_taxes, i.g_insurance) ]

\* total_closing_costs = box_a + box_b + box_c + box_e + box_f + box_g
TotalClosingCosts(b) ==
  DecAdd(DecAdd(DecAdd(DecAdd(DecAdd(b.box_a, b.box_b), b.box_c), b.box_e), b.box_f),
         b.box_g)

\* The report: the figures, and the amounts it prints (each the q2 of its
\* figure, in cents).  The monthly payment lines (P&I, MIP, PITIA) and the
\* APR are printed only and are left out: no other figure depends on them.
Render(t, f, i, b) ==
  LET printed == <<t.price, f.final_loan, f.cash_to_close, b.box_a, b.box_b, i.ufmip,
                   b.box_c, i.c_lender_title, b.box_e, b.box_f, i.f_insurance,
                   i.f_interim, b.box_g, i.g_taxes, i.g_insurance,
                   f.lender_credit_amt, f.total_after_credit, f.down_payment>>
  IN IF \E k \in DOMAIN printed : Q2Raises(printed[k])
     THEN Response("raise", <<>>, "InvalidOperation", 0, NoFigures)
     ELSE Response("quote", <<>>, "none", 0,
            [ down_payment        |-> f.down_payment,
              base_loan           |-> f.base_loan,
              ufmip               |-> i.ufmip,
              final_loan          |-> f.final_loan,
              total_closing_costs |-> f.total_closing_costs,
              lender_credit_amt   |-> f.lender_credit_amt,
              total_after_credit  |-> f.total_after_credit,
              cash_to_close       |-> f.cash_to_close,
              shown |->
                [ price          |-> fmt_currency(t.price),
                  final_loan     |-> fmt_currency(f.final_loan),
                  cash_to_close  |-> fmt_currency(f.cash_to_close),
                  box_a          |-> fmt_currency(b.box_a),
                  a_origination  |-> fmt_currency(i.a_origination),
                  box_b          |-> fmt_currency(b.box_b),
                  b_appraisal    |-> fmt_currency(i.b_appraisal),
                  b_credit       |-> fmt_currency(i.b_credit),
                  b_flood        |-> fmt_currency(i.b_flood),
                  ufmip          |-> fmt_currency(i.ufmip),
                  box_c          |-> fmt_currency(b.box_c),
                  c_title        |-> fmt_currency(i.c_title),
                  c_lender_title |-> fmt_currency(i.c_lender_title),
                  c_survey       |-> fmt_currency(i.c_survey),
                  box_e          |-> fmt_currency(b.box_e),
                  e_recording    |-> fmt_currency(i.e_recording),
                  e_transfer     |-> fmt_currency(i.e_transfer),
                  box_f          |-> fmt_currency(b.box_f),
                  f_insurance    |-> fmt_currency(i.f_insurance),
                  f_interim      |-> fmt_currency(i.f_interim),
                  box_g          |-> fmt_currency(b.box_g),
                  g_taxes        |-> fmt_currency(i.g_taxes),
                  g_insurance    |-> fmt_currency(i.g_insurance),
                  lender_credit  |-> fmt_currency(f.lender_credit_amt),
                  total_after_credit |-> fmt_currency(f.total_after_credit),
                  down_payment   |-> fmt_currency(f.down_payment) ] ])

\* The lender credit, the net closing costs and cash to close.
Settle(t, down_payment, base_loan, final_loan, i, b, total_closing_costs, lender_credit_amt) ==
  Render(t,
         [ down_payment        |-> down_payment,
           base_loan           |-> base_loan,
           final_loan          |-> final_loan,
           total_closing_costs |-> total_closing_costs,
           lender_credit_amt   |-> lender_credit_amt,
           total_after_credit  |-> AfterCredit(total_closing_costs, lender_credit_amt),
           cash_to_close       |-> CashToClose(down_payment, total_closing_costs,
                                               lender_credit_amt) ],
         i, b)

\* lender_credit_amt = q2(final_loan * (lcp / 100)), which may raise.
Credit(t, down_payment, base_loan, final_loan, i, b, credit_raw) ==
  IF Q2Raises(credit_raw)
  THEN Response("raise", <<>>, "InvalidOperation", 0, NoFigures)
  ELSE Settle(t, down_payment, base_loan, final_loan, i, b, TotalClosingCosts(b),
              q2(credit_raw))

\* The boxes of a loan.
Itemize(t, down_payment, base_loan, final_loan, i) ==
  Credit(t, down_payment, base_loan, final_loan, i, Boxes(i),
         DecMulPercent(final_loan, t.lcp))

\* final_loan = base_loan + ufmip
FinalLoan(t, down_payment, base_loan, ufmip) ==
  Itemize(t, down_payment, base_loan, DecAdd(base_loan, ufmip),
          LineItems(t, ufmip, DecAdd(base_loan, ufmip)))

\* Pricing, the itemized boxes, the credit, cash to close and the report.
Pricing(t, down_payment, base_loan) ==
  FinalLoan(t, down_payment, base_loan, Ufmip(base_loan))

\* The guardrails with the base-loan minimum left out.
GuardrailsNoBaseFloor(t, down_payment, base_loan) ==
  IF t.ptype \notin ALLOWED_PROP_TYPES
  THEN Response("decline_property", <<>>, "none", 0, NoFigures)
  ELSE IF t.fico_val.n < MIN_FICO
  THEN Response("decline_fico", <<>>, "none", 0, NoFigures)
  ELSE Pricing(t, down_payment, base_loan)

\* The guardrails, applied to the parsed request and its base loan.
Guardrails(t, down_payment, base_loan) ==
  IF t.ptype \notin ALLOWED_PROP_TYPES
  THEN Response("decline_property", <<>>, "none", 0, NoFigures)
  ELSE IF t.fico_val.n < MIN_FICO
  THEN Response("decline_fico", <<>>, "none", 0, NoFigures)
  ELSE IF DecLess(base_loan, Dollars(MIN_BASE_LOAN))
  THEN (IF Q2Raises(base_loan)
        THEN Response("raise", <<>>, "InvalidOperation", 0, NoFigures)
        ELSE Response("decline_base", <<>>, "none", fmt_currency(base_loan), NoFigures))
  ELSE Pricing(t, down_payment, base_loan)

\* base_loan = price - down_payment
BaseLoan(t, down_payment) == Guardrails(t, down_payment, DecSub(t.price, down_payment))

\* down_payment = q2(...), which may raise.
DownPayment(t, raw) ==
  IF Q2Raises(raw)
  THEN Response("raise", <<>>, "InvalidOperation", 0, NoFigures)
  ELSE BaseLoan(t, q2(raw))

\* After the try block: the required checks, then the figures.
AfterTry(p, t, missing) ==
  IF t.raised THEN Response("problem", <<>>, t.exc, 0, NoFigures)
  ELSE IF missing # <<>> THEN Response("missing", missing, "none", 0, NoFigures)
  ELSE DownPayment(t, DownPaymentRaw(t))

\* What the try block leaves, and the missing-field names computed from it.
Parsed(p, t) == AfterTry(p, t, RequiredChecks(p, t))

\* The handler: what it returns, or the exception that leaves it.
fha_quote(p) == Parsed(p, TryBlock(p))

----------------------------------------------------------------------------
(* The endpoint: a request arrives, the handler answers it. *)

\* A down payment of 28 digits.
OversizedAmount == <<"1">> \o Zeros(Prec - 1)

PurchasePrices ==
  {None, Str(<<"0">>), Str(<<"$", "2", "0", "0", "k">>), Str(<<"1", "5", "5", ",", "0", "0", "0">>), Str(<<"2", "8", "7", ",", "6", "5", "2", ".", "3", "2">>)}

DownPayments ==
  {None, Str(<<"3", ".", "5", "%">>), Str(<<"5", "0", "0", "0">>), Str(OversizedAmount)}

PercentFlags == {None, Str(<<"y", "e", "s">>)}

Ficos == {NoInt, PyInt(MIN_FICO - 1), PyInt(MIN_FICO)}

MonthlyTaxes == {None, Str(<<"3", "0", "0">>), Str(<<"-", "9", "0", "0", "0">>)}

MonthlyInsurances == {None, Str(<<"1", "0", "0">>), Str(<<"1", "0", "0", ".", "0", "0", "5">>)}

Hoas == {Str(<<"0">>), Str(<<"n", "/", "a">>)}

PropertyTypes ==
  { None, Str(<<"s", "f", "r">>), Str(<<"c", "o", "n", "d", "o">>), Str(<<"T", "o", "w", "n", "h", "o", "m", "e", " ", "C", "o", "n", "d", "o">>),
    Str(<<"m", "o", "b", "i", "l", "e", " ", "d", "u", "p", "l", "e", "x">>), Str(<<"c", "a", "b", "i", "n">>) }

LenderCredits == {Str(<<"0">>), Str(<<"1", "0">>), Str(<<"-", "1">>)}

Payloads ==
  [ purchase_price          : PurchasePrices,
    down_payment_value      : DownPayments,
    down_payment_is_percent : PercentFlags,
    fico                    : Ficos,
    monthly_taxes           : MonthlyTaxes,
    monthly_insurance       : MonthlyInsurances,
    hoa                     : Hoas,
    property_type           : PropertyTypes,
    lender_credit_percent   : LenderCredits ]

Init ==
  /\ pc = "idle"
  /\ payload = None
  /\ response = None
  /\ x = None
  /\ ret = Ret(DecZero)

\* POST /fha-quote arrives with payload p.
Request(p) ==
  /\ pc = "idle"
  /\ pc' = "called"
  /\ payload' = p
  /\ UNCHANGED <<response, x, ret>>

\* The handler runs to its return, or to the exception that leaves it.
FhaQuote ==
  /\ pc = "called"
  /\ pc' = "returned"
  /\ response' = fha_quote(payload)
  /\ UNCHANGED <<payload, x, ret>>

\* The response is sent; the endpoint keeps nothing.
Respond ==
  /\ pc = "returned"
  /\ pc' = "idle"
  /\ payload' = None
  /\ response' = None
  /\ UNCHANGED <<x, ret>>

Next ==
  \/ pc = "idle" /\ \E p \in Payloads : Request(p)
  \/ FhaQuote
  \/ Respond

Spec == Init /\ [][Next]_vars

----------------------------------------------------------------------------
(* Properties *)

Returned == pc = "returned"

Quoted == Returned /\ response.kind = "quote"

\* A field counts as supplied when it is present and not blank.
Supplied(v) == v.t # "NoneType" /\ Strip(v.s) # <<>>

\* The required fields the request did not supply, by the names the
\* missing-fields message uses.
Unsupplied(p) ==
  {n \in {"credit score"} : p.fico.t = "NoneType"}
    \cup {n \in {"purchase price"} : ~Supplied(p.purchase_price)}
    \cup {n \in {"down payment"} : ~Supplied(p.down_payment_value)}
    \cup {n \in {"monthly taxes"} : ~Supplied(p.monthly_taxes)}
    \cup {n \in {"monthly insurance"} : ~Supplied(p.monthly_insurance)}
    \cup {n \in {"property type"} : ~Supplied(p.property_type)}

Range(seq) == {seq[i] : i \in 1..Len(seq)}

\* The request passed the try block and the required checks and its down
\* payment was computed: the guardrails are reached.
ReachesGuardrails(p) ==
  /\ ~TryBlock(p).raised
  /\ RequiredChecks(p, TryBlock(p)) = <<>>
  /\ ~Q2Raises(DownPaymentRaw(TryBlock(p)))

\* Purchase price minus the computed down payment.
BaseLoanOf(p) == DecSub(TryBlock(p).price, q2(DownPaymentRaw(TryBlock(p))))

\* C1: every payload gets a textual result from fha_quote; no exception
\* leaves the handler.
C1_NeverRaises == Returned => response.kind # "raise"

\* The amount grammar: an optional minus sign, digits, and optionally a
\* point followed by digits.
FitsAmountGrammar(u) ==
  \E sgn \in 0..1, n \in 1..Len(u), f \in 0..Len(u) :
    /\ Len(u) = sgn + n + (IF f > 0 THEN f + 1 ELSE 0)
    /\ sgn = 1 => u[1] = "-"
    /\ \A i \in (sgn + 1)..(sgn + n) : IsDigit(u[i])
    /\ f > 0 => /\ u[sgn + n + 1] = "."
                /\ \A i \in (sgn + n + 2)..Len(u) : IsDigit(u[i])

\* The argument's text in lower case without surrounding blanks.
ArgText == Lower(Strip(x.s))

\* ArgText without "$", "," and blanks.
ArgBare == SelectSeq(ArgText, LAMBDA ch : ch \notin {"$", ",", " "})

ArgHasSuffix == ArgBare # <<>> /\ ArgBare[Len(ArgBare)] \in {"k", "m"}

\* The number part of the argument: ArgBare without its k or m.
ArgNumber == IF ArgHasSuffix THEN DropLast(ArgBare) ELSE ArgBare

\* The zeros the suffix stands for.
ArgZeros ==
  IF ~ArgHasSuffix THEN 0 ELSE IF ArgBare[Len(ArgBare)] = "k" THEN 3 ELSE 6

C3_PropertyDeclineFirst ==
  (/\ Returned
   /\ Unsupplied(payload) = {}
   /\ ~TryBlock(payload).raised
   /\ ~IsZero(TryBlock(payload).price)
   /\ normalize_property_type(payload.property_type) \notin ALLOWED_PROP_TYPES)
    => response.kind = "decline_property"

\* C4: a quote is returned only with a credit score of at least 640 and a
\* base loan (price minus computed down payment) of at least 150,000; a
\* request that reaches the guardrails with an eligible property type is
\* declined for FICO when its score is below 640, and otherwise declined
\* for the base loan, echoing it, when the base loan is below 150,000.
C4_QuoteOnlyAboveFloors ==
  Returned =>
    /\ response.kind = "quote" =>
         /\ payload.fico.t = "int" /\ payload.fico.n >= 640
         /\ response.q.base_loan = BaseLoanOf(payload)
         /\ ~DecLess(response.q.base_loan, Dollars(150000))
    /\ (/\ ReachesGuardrails(payload)
        /\ TryBlock(payload).ptype \in ALLOWED_PROP_TYPES
        /\ payload.fico.n < 640)
         => response.kind = "decline_fico"
    /\ (/\ ReachesGuardrails(payload)
        /\ TryBlock(payload).ptype \in ALLOWED_PROP_TYPES
        /\ payload.fico.n >= 640
        /\ DecLess(BaseLoanOf(payload), Dollars(150000)))
         => /\ response.kind = "decline_base"
            /\ response.echo = RoundedCents(BaseLoanOf(payload))

\* A request with a sufficient score was declined for its base loan.
C4_DeclinedForBaseLoan ==
  /\ Returned
  /\ response.kind = "decline_base"
  /\ payload.fico.n >= 640
  /\ response.echo < 150000 * 100
  /\ response.echo > 0

\* C5: in every quote the cash to close is at least the down payment, as
\* computed and as printed.
C5_CashToCloseAtLeastDownPayment ==
  Quoted =>
    /\ ~DecLess(response.q.cash_to_close, response.q.down_payment)
    /\ response.q.shown.cash_to_close >= response.q.shown.down_payment

\* A quote whose lender credit exceeds its total closing costs.
C5_CreditExceedsCosts ==
  /\ Quoted
  /\ DecLess(response.q.total_closing_costs, response.q.lender_credit_amt)
  /\ response.q.cash_to_close = response.q.down_payment

\* C6: in every quote final_loan = base_loan + ufmip, ufmip is base_loan
\* times 1.75% rounded half-up to cents, and base_loan is the purchase
\* price minus the down payment.
C6_FinalLoanIdentity ==
  Quoted =>
    LET q     == response.q
        exact == DecMulRatio(q.base_loan, 175, 10000)
    IN /\ q.base_loan = DecSub(TryBlock(payload).price, q.down_payment)
       /\ q.final_loan = DecAdd(q.base_loan, q.ufmip)
       /\ q.ufmip.t = 0 /\ q.ufmip.e = 0
       /\ 2 * exact.t < TicksPerCent => q.ufmip.c = exact.c
       /\ 2 * exact.t >= TicksPerCent => q.ufmip.c = exact.c + 1

\* A quote whose ufmip was rounded up to the next cent.
C6_UfmipRoundedUp ==
  /\ Quoted
  /\ response.q.ufmip.c = DecMulRatio(response.q.base_loan, 175, 10000).c + 1

\* C7 as claimed: when a required field is not supplied (and the supplied
\* ones parse) the response is the missing-fields message, and that
\* message names exactly the fields that were not supplied.
C7_MissingNamesExactlyUnsupplied ==
  (Returned /\ ~TryBlock(payload).raised) =>
    /\ Unsupplied(payload) # {} => response.kind = "missing"
    /\ response.kind = "missing" => Range(response.missing) = Unsupplied(payload)

\* C8 as claimed: the printed lender credit never exceeds the total
\* closing costs, and the printed net closing costs are the total less the
\* printed credit and never negative.
C8_CreditCappedAtCosts ==
  Quoted =>
    LET q == response.q IN
    /\ q.shown.lender_credit <= fmt_currency(q.total_closing_costs)
    /\ q.shown.total_after_credit = fmt_currency(q.total_closing_costs) - q.shown.lender_credit
    /\ q.shown.total_after_credit >= 0

\* C9 as claimed: each printed box subtotal is the sum of the box's printed
\* line items, and with no lender credit the printed total closing costs
\* are the sum of the printed box subtotals.
C9_PrintedSumsAgree ==
  Quoted =>
    LET s == response.q.shown IN
    /\ s.box_a = s.a_origination
    /\ s.box_b = s.b_appraisal + s.b_credit + s.b_flood + s.ufmip
    /\ s.box_c = s.c_title + s.c_lender_title + s.c_survey
    /\ s.box_e = s.e_recording + s.e_transfer
    /\ s.box_f = s.f_insurance + s.f_interim
    /\ s.box_g = s.g_taxes + s.g_insurance
    /\ s.lender_credit = 0 =>
         s.total_after_credit = s.box_a + s.box_b + s.box_c + s.box_e + s.box_f + s.box_g

\* The property-type text of the request names a condo or a manufactured
\* or mobile home.
NamesIneligibleType(v) ==
  /\ v.t = "str"
  /\ \/ Contains(Lower(v.s), <<"c", "o", "n", "d", "o">>)
     \/ Contains(Lower(v.s), <<"m", "a", "n", "u", "f", "a", "c", "t", "u", "r", "e", "d">>)
     \/ Contains(Lower(v.s), <<"m", "o", "b", "i", "l", "e">>)

\* C10 as claimed: a property-type text containing condo, manufactured or
\* mobile is never normalised to an eligible type and never gets a quote.
C10_IneligibleWordsBlock ==
  (Returned /\ NamesIneligibleType(payload.property_type)) =>
    /\ normalize_property_type(payload.property_type) \notin ALLOWED_PROP_TYPES
    /\ response.kind # "quote"

====
